---- MODULE Spec2Model ----
(***************************************************************************)
(* The SRT session supervisor of srt-processor: SrtProcessManager          *)
(* (process_manager.py), the session start and the countdown loop of the   *)
(* two dashboards that drive it (app.py and pages/1_Live_Transmit.py), the *)
(* background monitor thread, the receiver processes and the artifacts     *)
(* they write, and the traffic-control rule on the host interfaces.        *)
(*                                                                         *)
(* One dashboard session is modelled: Streamlit runs its script one run at *)
(* a time, while the monitor threads and the receiver processes of earlier *)
(* runs live on next to it.  The manager is the st.cache_resource          *)
(* singleton, so every run uses the same instance.                         *)
(*                                                                         *)
(* Spec is that supervisor and FairSpec adds its scheduling.  Smaller       *)
(* specifications take one part each, with the rest of the state at rest:  *)
(* FnSpec the log extraction, ProbeSpec the ffprobe functions and the      *)
(* "Transport Stream" tab, FormSpec the sidebar form and its Submit        *)
(* button, PipeSpec the captured output of the launched children,          *)
(* ManagerSpec the same children with ProcessManager.stop_process called   *)
(* on them, CaptureSpec the upload of pages/2_Packet_Capture.py.           *)
(***************************************************************************)
EXTENDS Integers, Sequences, FiniteSets, TLC

\* number of start_process calls explored on the cached manager
MaxSessions == 2
\* largest value of the "Select timeout" input explored (seconds, scaled)
MaxTimeout == 2
\* number of host interfaces offered by "Select host interface"
NumIntf == 1

\* capacity of an OS pipe (scaled)
PipeCap == 3
\* longest log content explored, in tokens
MaxLogLen == 3
\* calls of extract_connected_ip_port explored on one log content
MaxCalls == 2
\* calls of stop_process explored on one manager
MaxStops == 2

Sessions == 1..MaxSessions
Interfaces == 1..NumIntf
Timeouts == 1..MaxTimeout

VARIABLES
    frontend,                \* which dashboard script is served: "app" | "page"
    tc,                      \* the traffic-control utility: "ok" | "missing"
    connection_established,  \* SrtProcessManager.connection_established
    process,                 \* SrtProcessManager.process: 0 = None, else the Popen handle
    proc,                    \* proc[p]: the OS process behind handle p: "none" |
                             \*   "spawned" | "running" | "exited"
    mon,                     \* mon[m]: the monitor thread started by call m: "none" |
                             \*   "poll" (asleep before its next poll) | "ended"
    stats,                   \* ./srt/received.ts.stats: "missing" | "empty" | "nonempty"
    log,                     \* ./srt/received.ts.log: "missing" | "present"
    qdisc,                   \* qdisc[i]: delay rules requested for interface i (tc
                             \*   qdisc add) and not removed by a later tc qdisc del
    pc,                      \* position of the dashboard script: "idle" | "raised" |
                             \*   "clear" | "add" | "start" | "loop"
    srt_timeout,             \* _handle_timeout: remaining seconds
    srt_connected,           \* _handle_timeout: local latch
    session,                 \* inputs of the submitted run: [T, netem, intf]
    counterSink,             \* values rendered to the 'counter' sink in this run
    connectedSink,           \* hosts rendered to the 'connected' sink in this run
    hist,                    \* observations of the run and of the manager (history only)
    logFile,                 \* ./srt/received.ts.log as read by extract_connected_ip_port:
                             \*   [exists, tokens]
    rets,                    \* results of the extract_connected_ip_port calls made since
                             \*   the log last changed
    probe,                   \* the last call that ran ffprobe on srt/received.ts:
                             \*   [fn, fmt, prg, ret, indexedNone]
    browser,                 \* the sidebar form as the operator's browser holds it:
                             \*   [srt_mode, listener_ip, submit_disabled]
    run,                     \* the script run that serves the form: [pc, srt_mode,
                             \*   listener_ip, srt_submitted, submit_disabled, srt_ip]
    child,                   \* child[k]: the process manager k launched with
                             \*   stdout=PIPE, stderr=PIPE: "none" | "running" | "exited"
    pipes,                   \* pipes[k][s]: bytes waiting in the pipe of its stream s
    reader,                  \* reader[k]: the thread reading its output: "none" |
                             \*   "reading" | "closed"
    stop,                    \* stop[k]: the stop_process calls on manager k: [calls,
                             \*   signals (terminate() on the held process), logged
                             \*   ("Process terminated." lines)]
    upload                   \* the run of pages/2_Packet_Capture.py that handles an
                             \*   uploaded capture: [pc, csv, out]

\* the dashboard session and its manager
dashVars == << frontend, tc, connection_established, process, proc, mon, stats, log, qdisc,
               pc, srt_timeout, srt_connected, session, counterSink, connectedSink, hist >>

\* the manager's functions taken one call at a time
fnVars == << logFile, rets >>

\* the transport-stream probes and the tab that shows them
probeVars == << probe >>

\* the sidebar form and the script run behind it
formVars == << browser, run >>

\* a launched child, its captured output, and the callers of its manager
pipeVars == << child, pipes, reader, stop, upload >>

auxVars == << fnVars, probeVars, formVars, pipeVars >>

vars == << dashVars, auxVars >>

NoSession == [T |-> 0, netem |-> FALSE, intf |-> 1]

\* History of a run that has not started yet.  everTrue is the one field about the
\* manager instead of the run: get_connection_status() has returned true before.
NoHist(everTrue) ==
    [ticks |-> 0,            \* one-second sleeps of the countdown
     extractCalls |-> 0,     \* calls of extract_connected_ip_port
     trueAtTick |-> 0,       \* tick at which get_connection_status() returned true
     staleRule |-> FALSE,    \* the clear of this session start removed a rule
     windowEmpty |-> TRUE,   \* the statistics were never non-empty since start_process
     wrote |-> FALSE,        \* the process of this run has written statistics
     cleaned |-> FALSE,      \* the cleanup after the loop was the last thing the
                             \*   manager saw: no start_process call since
     everTrue |-> everTrue]

\* A log file: whether it exists, and its text as a sequence of whitespace-separated
\* tokens.  A token either matches (\d+\.\d+\.\d+\.\d+):(\d+) or it does not.
File(e, t) == [exists |-> e, tokens |-> t]
NoFile == File(FALSE, << >>)
AddrTokens == {"10.0.0.7:4200", "10.0.0.9:4201"}
Tokens == AddrTokens \cup {"Accepted"}

\* the functions are at rest: nothing was called
FnRest == logFile = NoFile /\ rets = << >>

\* the dashboard has been loaded and no session was submitted yet
DashInit ==
    /\ frontend \in {"app", "page"}
    /\ tc \in {"ok", "missing"}
    /\ connection_established = FALSE
    /\ process = 0
    /\ proc = [p \in Sessions |-> "none"]
    /\ mon = [m \in Sessions |-> "none"]
    /\ stats = "missing"
    /\ log = "missing"
    /\ qdisc = [i \in Interfaces |-> 0]
    /\ pc = "idle"
    /\ srt_timeout = 0
    /\ srt_connected = FALSE
    /\ session = NoSession
    /\ counterSink = << >>
    /\ connectedSink = << >>
    /\ hist = NoHist(FALSE)

\* What one ffprobe invocation gives back to subprocess.run: whether the executable
\* could be run at all, its exit status, and its stdout: whether json.loads accepts
\* it, and for a JSON object its "format" entry (absent, without format_name, or the
\* format_name) and whether it has a "programs" entry.
Stdout(ok, f, g) == [parses |-> ok, format |-> f, programs |-> g]
NotJson == Stdout(FALSE, "absent", FALSE)
Stdouts ==
    {NotJson} \cup
    {Stdout(TRUE, f, g) : f \in {"absent", "noname", "mpegts", "mov,mp4"}, g \in BOOLEAN}
Run(r, e, o) == [runnable |-> r, exit |-> e, out |-> o]
NotRunnable == Run(FALSE, 1, NotJson)
NoRun == Run(FALSE, 0, NotJson)
ProbeRuns == {NotRunnable} \cup {Run(TRUE, e, o) : e \in {0, 1}, o \in Stdouts}

\* no probe was called
NoProbe == [fn |-> "none", fmt |-> NoRun, prg |-> NoRun, ret |-> "none",
            indexedNone |-> FALSE]
ProbeRest == probe = NoProbe

\* The sidebar form: the connection mode and the text of "*IPv4 address of listener"
\* (empty, ill-formed, well-formed).
Modes == {"Caller", "Listener"}
Addresses == {"", "192.168.1", "192.168.1.7"}
NoRunYet == [pc |-> "done", srt_mode |-> "Caller", listener_ip |-> "",
             srt_submitted |-> FALSE, submit_disabled |-> TRUE, srt_ip |-> ""]
\* the first load: Caller is the first radio option, the address is empty
FormRest ==
    /\ browser = [srt_mode |-> "Caller", listener_ip |-> "", submit_disabled |-> TRUE]
    /\ run = NoRunYet

\* the two managers that launch a child: SrtProcessManager, LibTcpDumpManager
Kinds == {"receiver", "capture"}
Streams == {"stdout", "stderr"}
\* nothing was launched
NoStop == [calls |-> 0, signals |-> 0, logged |-> 0]
\* no capture was uploaded: nothing was read from the results of an analysis
NoUpload == [pc |-> "idle", csv |-> "none", out |-> "none"]
PipeRest ==
    /\ child = [k \in Kinds |-> "none"]
    /\ pipes = [k \in Kinds |-> [s \in Streams |-> 0]]
    /\ reader = [k \in Kinds |-> "none"]
    /\ stop = [k \in Kinds |-> NoStop]
    /\ upload = NoUpload

Init == DashInit /\ FnRest /\ ProbeRest /\ FormRest /\ PipeRest

(***************************************************************************)
(* SrtProcessManager: the pieces of process_manager.py the dashboards use. *)
(***************************************************************************)

\* subprocess.run(["tc", ...]) is called without check=True: a non-zero exit status
\* is returned and ignored, CalledProcessError is never raised.  An executable that
\* cannot be run raises FileNotFoundError, which the except clause does not catch.
TcRaises(t) == t = "missing"

\* tc qdisc del dev <intf> root netem: removes the rule of the interface; with no
\* rule on it tc exits non-zero, which is ignored, and nothing changes.
clear_network_emulation_noop(q, i) == q
clear_network_emulation(q, i) == [q EXCEPT ![i] = 0]

\* tc qdisc add dev <intf> root netem delay <delay>ms
add_network_emulation(q, i) == [q EXCEPT ![i] = @ + 1]

\* get_connection_status: return self.connection_established
get_connection_status == connection_established

\* What a read of the log file can give: nothing when it is missing, else the text
\* the receiver has written so far, with or without an address:port token.
LogContents(l) ==
    IF l = "missing"
    THEN {NoFile}
    ELSE {File(TRUE, <<"Accepted">>), File(TRUE, <<"Accepted", "10.0.0.7:4200">>)}

Sentinel == "error: unable to determine connected host"

\* re.search(pattern, log_content): the leftmost match, 0 for None
RECURSIVE re_search_from(_, _)
re_search_from(tokens, k) ==
    IF k > Len(tokens) THEN 0
    ELSE IF tokens[k] \in AddrTokens THEN k
    ELSE re_search_from(tokens, k + 1)

re_search_last(tokens) ==
    IF \E k \in 1..Len(tokens) : tokens[k] \in AddrTokens
    THEN CHOOSE k \in 1..Len(tokens) :
             /\ tokens[k] \in AddrTokens
             /\ \A j \in (k + 1)..Len(tokens) : tokens[j] \notin AddrTokens
    ELSE 0
re_search(tokens) == re_search_from(tokens, 1)

\* extract_connected_ip_port: open() of a missing log raises FileNotFoundError;
\* re.search gives the first address:port token or the sentinel.
extract_connected_ip_port(file) ==
    IF ~file.exists THEN "raise"
    ELSE IF re_search(file.tokens) = 0
    THEN Sentinel
    ELSE file.tokens[re_search(file.tokens)]

\* self.process.poll() is None
PollIsNone_always(p) == TRUE
PollIsNone(p) == proc[p] \in {"spawned", "running"}

\* monitor_connection_status, one poll: the flag after looking at st_size
MonitorFlag_assign(size, flag) == size = "nonempty"
MonitorFlag(size, flag) == IF size = "nonempty" THEN TRUE ELSE flag

\* while srt_timeout > 0
LoopCond_inclusive(t) == t >= 0
LoopCond(t) == t > 0

(***************************************************************************)
(* The dashboard script: one run per operator interaction.                 *)
(***************************************************************************)

\* A run of the script ends: by st.rerun() or the operator's next interaction ("idle"),
\* or by an exception nothing catches, which Streamlit shows ("raised").  The locals of
\* the run are gone; the next run has srt_submitted false, executes no session code
\* and enables Submit again.
EndRun(how, everTrue) ==
    /\ pc' = how
    /\ srt_timeout' = 0
    /\ srt_connected' = FALSE
    /\ session' = NoSession
    /\ counterSink' = << >>
    /\ connectedSink' = << >>
    /\ hist' = NoHist(everTrue)

\* The operator presses Submit (srt_submitted is true in this run only).
Submit(T, n, i) ==
    /\ pc \in {"idle", "raised"}
    /\ process < MaxSessions
    /\ pc' = "clear"
    /\ session' = [T |-> T, netem |-> n, intf |-> i]
    /\ srt_timeout' = T
    /\ UNCHANGED << auxVars, frontend, tc, connection_established, process, proc, mon, stats,
                    log, qdisc, srt_connected, counterSink, connectedSink, hist >>

\* the step after the clear: "if netem:" add the rule, else go on to start_process
AfterClear_skip(netem) == "start"
AfterClear(netem) == IF netem THEN "add" ELSE "start"

\* "clear out any pre-existing network emulation settings"
StartClear ==
    /\ pc = "clear"
    /\ IF TcRaises(tc)
       THEN /\ EndRun("raised", hist.everTrue)
            /\ UNCHANGED qdisc
       ELSE /\ qdisc' = clear_network_emulation(qdisc, session.intf)
            /\ pc' = AfterClear(session.netem)
            /\ hist' = [hist EXCEPT !.staleRule = (qdisc[session.intf] > 0)]
            /\ UNCHANGED << srt_timeout, srt_connected, session, counterSink,
                            connectedSink >>
    /\ UNCHANGED << auxVars, frontend, tc, connection_established, process, proc, mon, stats,
                    log >>

\* if netem: srt_manager.add_network_emulation(selected_interface_name, delay)
StartAdd ==
    /\ pc = "add"
    /\ IF TcRaises(tc)
       THEN /\ EndRun("raised", hist.everTrue)
            /\ UNCHANGED qdisc
       ELSE /\ qdisc' = add_network_emulation(qdisc, session.intf)
            /\ pc' = "start"
            /\ UNCHANGED << hist, srt_timeout, srt_connected, session, counterSink,
                            connectedSink >>
    /\ UNCHANGED << auxVars, frontend, tc, connection_established, process, proc, mon, stats,
                    log >>

\* subprocess.Popen(command, shell=True, ...): a new OS process behind a new handle
\* at every call; the handle the manager held before is dropped, its process lives on.
\* srt_manager.start_process(...): Popen, then the monitor thread; the flag is not
\* touched.  Then _handle_timeout begins: srt_connected = False.
Popen_reuse(h) == IF h = 0 THEN 1 ELSE h
Popen(h) == h + 1

start_process ==
    /\ pc = "start"
    /\ process' = Popen(process)
    /\ proc' = [proc EXCEPT ![Popen(process)] = "spawned"]
    /\ mon' = [mon EXCEPT ![Popen(process)] = "poll"]
    /\ srt_connected' = FALSE
    /\ pc' = "loop"
    /\ hist' = [hist EXCEPT !.windowEmpty = (stats # "nonempty"), !.staleRule = FALSE,
                            !.cleaned = FALSE]
    /\ UNCHANGED << auxVars, frontend, tc, connection_established, stats, log, qdisc,
                    srt_timeout, session, counterSink, connectedSink >>

\* subprocess.Popen raises OSError when the shell itself cannot be started (fork fails):
\* start_process has no try/except, the exception ends the run before the monitor
\* thread is started.  A receiver binary that cannot be run is not this case: the
\* shell is started, reports it and exits (ProcExit of a spawned process).
PopenRaises ==
    /\ pc = "start"
    /\ EndRun("raised", hist.everTrue)
    /\ UNCHANGED << auxVars, frontend, tc, connection_established, process, proc, mon, stats,
                    log, qdisc >>

\* One tick of "while srt_timeout > 0": counter.warning(...), time.sleep(1),
\* srt_timeout -= 1, and the status check unless srt_connected is latched.
Tick(content) ==
    /\ pc = "loop"
    /\ LoopCond(srt_timeout)
    /\ IF ~srt_connected /\ get_connection_status
       THEN IF extract_connected_ip_port(content) = "raise"
            THEN EndRun("raised", TRUE)
            ELSE /\ pc' = "loop"
                 /\ counterSink' = Append(counterSink, srt_timeout)
                 /\ srt_timeout' = srt_timeout - 1
                 /\ srt_connected' = TRUE
                 /\ connectedSink' = Append(connectedSink,
                                             extract_connected_ip_port(content))
                 /\ hist' = [hist EXCEPT !.ticks = @ + 1, !.extractCalls = @ + 1,
                                         !.trueAtTick = hist.ticks + 1,
                                         !.everTrue = TRUE]
                 /\ UNCHANGED session
       ELSE /\ pc' = "loop"
            /\ counterSink' = Append(counterSink, srt_timeout)
            /\ srt_timeout' = srt_timeout - 1
            /\ hist' = [hist EXCEPT !.ticks = @ + 1]
            /\ UNCHANGED << srt_connected, connectedSink, session >>
    /\ UNCHANGED << auxVars, frontend, tc, connection_established, process, proc, mon, stats,
                    log, qdisc >>

\* The loop ends, "timeout completes naturally": the flag is reset;
\* pages/1_Live_Transmit.py also clears the network emulation, app.py does not;
\* then st.rerun().
Expire ==
    /\ pc = "loop"
    /\ ~LoopCond(srt_timeout)
    /\ connection_established' = FALSE
    /\ qdisc' = IF frontend = "page" /\ ~TcRaises(tc)
                THEN clear_network_emulation(qdisc, session.intf)
                ELSE qdisc
    /\ pc' = "idle"
    /\ srt_timeout' = 0
    /\ srt_connected' = FALSE
    /\ session' = NoSession
    /\ counterSink' = << >>
    /\ connectedSink' = << >>
    /\ hist' = [NoHist(hist.everTrue) EXCEPT !.cleaned = TRUE]
    /\ UNCHANGED << auxVars, frontend, tc, process, proc, mon, stats, log >>

\* The operator presses "Terminate session" during the countdown: Streamlit stops the
\* script at its next element call, the counter.warning of the next tick, and runs it
\* again with srt_submitted false: the statements after the loop are not executed.
Terminate ==
    /\ pc = "loop"
    /\ LoopCond(srt_timeout)
    /\ EndRun("idle", hist.everTrue)
    /\ UNCHANGED << auxVars, frontend, tc, connection_established, process, proc, mon, stats,
                    log, qdisc >>

(***************************************************************************)
(* monitor_connection_status: the thread started by start_process call m.  *)
(* It reads self.process at every poll, so it follows the handle the       *)
(* manager holds at that moment.                                           *)
(***************************************************************************)

\* One poll, after the time.sleep(1) that precedes every poll:
\*     while self.process.poll() is None:
\*         if os.stat("./srt/received.ts.stats").st_size != 0:
\*             self.connection_established = True; break
\*         time.sleep(1)
\* The thread ends when the process has exited, when it has set the flag, and when
\* os.stat raises FileNotFoundError for a missing file.
MonPoll(m) ==
    /\ mon[m] = "poll"
    /\ IF ~PollIsNone(process) \/ stats = "missing"
       THEN /\ mon' = [mon EXCEPT ![m] = "ended"]
            /\ UNCHANGED connection_established
       ELSE /\ connection_established' = MonitorFlag(stats, connection_established)
            /\ mon' = [mon EXCEPT ![m] = IF stats = "nonempty" THEN "ended" ELSE "poll"]
    /\ UNCHANGED << auxVars, frontend, tc, process, proc, stats, log, qdisc, pc, srt_timeout,
                    srt_connected, session, counterSink, connectedSink, hist >>

(***************************************************************************)
(* The receiver process (srt-live-transmit behind a shell) and the         *)
(* artifacts it writes; the manager only launches it and polls it.         *)
(***************************************************************************)

\* the receiver opens -statsout: the file is created or truncated
ProcOpenStats(p) ==
    /\ proc[p] = "spawned"
    /\ proc' = [proc EXCEPT ![p] = "running"]
    /\ stats' = "empty"
    /\ UNCHANGED << auxVars, frontend, tc, connection_established, process, mon, log, qdisc, pc,
                    srt_timeout, srt_connected, session, counterSink, connectedSink,
                    hist >>

\* the receiver reports statistics of a connected peer
ProcWriteStats(p) ==
    /\ proc[p] = "running"
    /\ stats' = "nonempty"
    /\ hist' = [hist EXCEPT !.windowEmpty = (@ /\ pc # "loop"),
                            !.wrote = (@ \/ (pc = "loop" /\ p = process))]
    /\ hist' # hist \/ stats' # stats
    /\ UNCHANGED << auxVars, frontend, tc, connection_established, process, proc, mon, log,
                    qdisc, pc, srt_timeout, srt_connected, session, counterSink,
                    connectedSink >>

\* the receiver opens -logfile: the file is created
ProcOpenLog(p) ==
    /\ proc[p] \in {"spawned", "running"}
    /\ log = "missing"
    /\ log' = "present"
    /\ UNCHANGED << auxVars, frontend, tc, connection_established, process, proc, mon, stats,
                    qdisc, pc, srt_timeout, srt_connected, session, counterSink,
                    connectedSink, hist >>

\* the receiver exits: -to: timeout, peer gone, or the binary could not be run
ProcExit(p) ==
    /\ proc[p] \in {"spawned", "running"}
    /\ proc' = [proc EXCEPT ![p] = "exited"]
    /\ UNCHANGED << auxVars, frontend, tc, connection_established, process, mon, stats, log,
                    qdisc, pc, srt_timeout, srt_connected, session, counterSink,
                    connectedSink, hist >>

Next ==
    \/ \E T \in Timeouts, n \in BOOLEAN, i \in Interfaces : Submit(T, n, i)
    \/ StartClear
    \/ StartAdd
    \/ start_process
    \/ PopenRaises
    \/ \E content \in LogContents(log) : Tick(content)
    \/ Expire
    \/ Terminate
    \/ \E m \in Sessions : MonPoll(m)
    \/ \E p \in Sessions : ProcOpenStats(p)
    \/ \E p \in Sessions : ProcWriteStats(p)
    \/ \E p \in Sessions : ProcOpenLog(p)
    \/ \E p \in Sessions : ProcExit(p)

Spec == Init /\ [][Next]_vars

\* Scheduling: a monitor thread that can take its next poll takes it, and every
\* receiver exits: it is started with -to:<timeout>, its own exit timer.
FairSpec ==
    /\ Spec
    /\ \A m \in Sessions : WF_vars(MonPoll(m))
    /\ \A p \in Sessions : WF_vars(ProcExit(p))

(***************************************************************************)
(* The manager's functions, one call at a time, on every input of the      *)
(* bounded domains.                                                        *)
(***************************************************************************)

FnInit == DashInit /\ FnRest /\ ProbeRest /\ FormRest /\ PipeRest

\* the receiver creates its log file, or appends a token to it
LogWrite(tok) ==
    /\ Len(logFile.tokens) < MaxLogLen
    /\ logFile' = IF logFile.exists
                  THEN File(TRUE, Append(logFile.tokens, tok))
                  ELSE File(TRUE, << >>)
    /\ rets' = << >>
    /\ UNCHANGED << dashVars, pipeVars, probeVars, formVars >>

\* a caller invokes extract_connected_ip_port()
ExtractCall ==
    /\ Len(rets) < MaxCalls
    /\ rets' = Append(rets, extract_connected_ip_port(logFile))
    /\ UNCHANGED << dashVars, pipeVars, probeVars, formVars, logFile >>

FnNext ==
    \/ \E tok \in Tokens : LogWrite(tok)
    \/ ExtractCall

FnSpec == FnInit /\ [][FnNext]_vars

(***************************************************************************)
(* The transport-stream probes: check_for_valid_mpeg_ts,                   *)
(* show_mpeg_ts_programs and the "Transport Stream" tab, on every outcome  *)
(* of the ffprobe invocations.                                             *)
(***************************************************************************)

\* check_for_valid_mpeg_ts: subprocess.run without check=True ignores the exit status
\* and raises FileNotFoundError for an executable that cannot be run; json.loads of
\* the stdout; "raise" stands for an exception leaving the function.
check_for_valid_mpeg_ts(res) ==
    IF ~res.runnable THEN "raise"
    ELSE IF ~res.out.parses THEN "None"
    ELSE IF res.out.format = "mpegts" THEN "True"
    ELSE "False"

\* show_mpeg_ts_programs: the parsed output ("output") when it has "programs"
show_mpeg_ts_programs(res) ==
    IF ~res.runnable THEN "raise"
    ELSE IF ~res.out.parses THEN "None"
    ELSE IF res.out.programs THEN "output"
    ELSE "None"

\* _display_transport_stream_data: what the tab ends with, given the two probe runs:
\*     if srt_manager.check_for_valid_mpeg_ts():
\*         programs = srt_manager.show_mpeg_ts_programs()
\*         programs_data = programs["programs"] ...
\*     else:
\*         st.error("No valid MPEG-TS detected")
display_transport_stream_data(f, p) ==
    IF check_for_valid_mpeg_ts(f) = "raise" THEN "raise"
    ELSE IF check_for_valid_mpeg_ts(f) = "True"
    THEN IF show_mpeg_ts_programs(p) = "output" THEN "programs" ELSE "raise"
    ELSE "error"

ProbeInit == DashInit /\ FnRest /\ ProbeRest /\ FormRest /\ PipeRest

\* a caller invokes check_for_valid_mpeg_ts()
CheckCall(f) ==
    /\ probe' = [fn |-> "check_for_valid_mpeg_ts", fmt |-> f, prg |-> NoRun,
                 ret |-> check_for_valid_mpeg_ts(f), indexedNone |-> FALSE]
    /\ UNCHANGED << dashVars, pipeVars, fnVars, formVars >>

\* a caller invokes show_mpeg_ts_programs()
ShowCall(p) ==
    /\ probe' = [fn |-> "show_mpeg_ts_programs", fmt |-> NoRun, prg |-> p,
                 ret |-> show_mpeg_ts_programs(p), indexedNone |-> FALSE]
    /\ UNCHANGED << dashVars, pipeVars, fnVars, formVars >>

\* the "Transport Stream" tab is drawn; the second probe runs only in the true branch
DisplayCall(f, p) ==
    /\ check_for_valid_mpeg_ts(f) # "True" => p = NoRun
    /\ check_for_valid_mpeg_ts(f) = "True" => p \in ProbeRuns
    /\ probe' = [fn |-> "_display_transport_stream_data", fmt |-> f, prg |-> p,
                 ret |-> display_transport_stream_data(f, p),
                 indexedNone |-> (/\ check_for_valid_mpeg_ts(f) = "True"
                                  /\ show_mpeg_ts_programs(p) = "None")]
    /\ UNCHANGED << dashVars, pipeVars, fnVars, formVars >>

ProbeNext ==
    \/ \E f \in ProbeRuns : CheckCall(f)
    \/ \E p \in ProbeRuns : ShowCall(p)
    \/ \E f \in ProbeRuns, p \in ProbeRuns \cup {NoRun} : DisplayCall(f, p)

ProbeSpec == ProbeInit /\ [][ProbeNext]_vars

(***************************************************************************)
(* The sidebar form (app.py 704-824): every operator interaction starts a  *)
(* script run with the widget values the browser holds; the browser shows  *)
(* the Submit button as the last run that reached it has drawn it.         *)
(***************************************************************************)

\* Toolbox.validate_ipv4_address, called at app.py 752 and not defined in toolbox.py:
\* true for a well-formed dotted-decimal address
validate_ipv4_address(ip) == ip = "192.168.1.7"

\* the run that an interaction starts, with the widget values sent along
NewRun(m, a, clicked) ==
    [pc |-> "top", srt_mode |-> m, listener_ip |-> a, srt_submitted |-> clicked,
     submit_disabled |-> FALSE, srt_ip |-> ""]

FormInit == DashInit /\ FnRest /\ ProbeRest /\ FormRest /\ PipeRest

\* the page is opened, or a run that ended with st.rerun() starts over
FormLoad ==
    /\ run.pc = "done"
    /\ run' = NewRun(browser.srt_mode, browser.listener_ip, FALSE)
    /\ UNCHANGED << dashVars, pipeVars, fnVars, probeVars, browser >>

\* the operator changes the mode or the address: the running script is stopped and
\* run again with the new values; the button of the last render stays on the page
\* until the new run draws it
FormEdit(m, a) ==
    /\ << m, a >> # << browser.srt_mode, browser.listener_ip >>
    /\ browser' = [browser EXCEPT !.srt_mode = m, !.listener_ip = a]
    /\ run' = NewRun(m, a, FALSE)
    /\ UNCHANGED << dashVars, pipeVars, fnVars, probeVars >>

\* the operator presses Submit, which the page shows enabled
FormClick ==
    /\ ~browser.submit_disabled
    /\ run' = NewRun(browser.srt_mode, browser.listener_ip, TRUE)
    /\ UNCHANGED << dashVars, pipeVars, fnVars, probeVars, browser >>

\* app.py 705 and 731-756: submit_disabled from srt_submitted, then the validation
ScriptValidate ==
    /\ run.pc = "top"
    /\ run' = [run EXCEPT
                 !.pc = "button",
                 !.submit_disabled =
                     \/ run.srt_submitted
                     \/ /\ run.srt_mode = "Caller"
                        /\ \/ run.listener_ip = ""
                           \/ ~validate_ipv4_address(run.listener_ip),
                 !.srt_ip =
                     IF run.srt_mode = "Listener" THEN "host"
                     ELSE IF run.listener_ip = "" THEN ""
                     ELSE IF ~validate_ipv4_address(run.listener_ip) THEN ""
                     ELSE run.listener_ip]
    /\ UNCHANGED << dashVars, pipeVars, fnVars, probeVars, browser >>

\* app.py 808-810: st.button("Submit", disabled=..., key="srt_submitted")
ScriptButton ==
    /\ run.pc = "button"
    /\ browser' = [browser EXCEPT !.submit_disabled = run.submit_disabled]
    /\ run' = [run EXCEPT !.pc = "handle"]
    /\ UNCHANGED << dashVars, pipeVars, fnVars, probeVars >>

\* app.py 813-824: if st.session_state.srt_submitted: _start_srt_session(...), which
\* calls add_network_emulation and start_process with srt_ip and runs the countdown
ScriptHandle ==
    /\ run.pc = "handle"
    /\ run' = [run EXCEPT !.pc = IF run.srt_submitted THEN "session" ELSE "idle"]
    /\ UNCHANGED << dashVars, pipeVars, fnVars, probeVars, browser >>

\* the countdown ends: st.rerun()
ScriptRerun ==
    /\ run.pc = "session"
    /\ run' = [run EXCEPT !.pc = "done"]
    /\ UNCHANGED << dashVars, pipeVars, fnVars, probeVars, browser >>

FormNext ==
    \/ FormLoad
    \/ \E m \in Modes, a \in Addresses : FormEdit(m, a)
    \/ FormClick
    \/ ScriptValidate
    \/ ScriptButton
    \/ ScriptHandle
    \/ ScriptRerun

FormSpec == FormInit /\ [][FormNext]_vars

(***************************************************************************)
(* Captured output.  Both start_process methods launch their child with    *)
(* stdout=PIPE and stderr=PIPE.  A child that writes to a full pipe blocks *)
(* until somebody reads from it.                                           *)
(***************************************************************************)

\* The streams of the child that end in a pipe of the manager.  The receiver's command
\* line redirects its stdout to srt/received.ts, so only its stderr does; the capture
\* analysis writes to both.
PipedStreams(kind) == IF kind = "receiver" THEN {"stderr"} ELSE Streams

\* The streams drained by the thread that start_process starts: none for the receiver
\* (its thread is monitor_connection_status), stdout for the capture analysis
\* (redirect_output_to_file reads self.process.stdout only).
DrainedStreams(kind) == IF kind = "receiver" THEN {} ELSE {"stdout"}

PipeInit == DashInit /\ FnRest /\ ProbeRest /\ FormRest /\ PipeRest

\* SrtProcessManager.start_process or LibTcpDumpManager.start_process
Launch(k) ==
    /\ child[k] \in {"none", "exited"}
    /\ child' = [child EXCEPT ![k] = "running"]
    /\ pipes' = [pipes EXCEPT ![k] = [s \in Streams |-> 0]]
    /\ reader' = [reader EXCEPT ![k] = IF DrainedStreams(k) = {} THEN "none"
                                        ELSE "reading"]
    /\ stop' = [stop EXCEPT ![k].signals = 0]
    /\ UNCHANGED << dashVars, fnVars, probeVars, formVars, upload >>

\* the child writes to one of its piped streams; a full pipe blocks the write
ChildWrite(k, s) ==
    /\ child[k] = "running"
    /\ s \in PipedStreams(k)
    /\ pipes[k][s] < PipeCap
    /\ pipes' = [pipes EXCEPT ![k][s] = @ + 1]
    /\ UNCHANGED << dashVars, fnVars, probeVars, formVars, child, reader, stop, upload >>

\* the reader thread takes a line from a stream it reads
ReaderDrain(k, s) ==
    /\ reader[k] = "reading"
    /\ s \in DrainedStreams(k)
    /\ pipes[k][s] > 0
    /\ pipes' = [pipes EXCEPT ![k][s] = @ - 1]
    /\ UNCHANGED << dashVars, fnVars, probeVars, formVars, child, reader, stop, upload >>

\* the child exits, which it can only do when it is not blocked in a write
ChildExit(k) ==
    /\ child[k] = "running"
    /\ \A s \in PipedStreams(k) : pipes[k][s] < PipeCap
    /\ child' = [child EXCEPT ![k] = "exited"]
    /\ UNCHANGED << dashVars, fnVars, probeVars, formVars, pipes, reader, stop, upload >>

\* readline returns "" at end of stream: the reader closes stdout and ends
ReaderClose(k) ==
    /\ reader[k] = "reading"
    /\ child[k] = "exited"
    /\ \A s \in DrainedStreams(k) : pipes[k][s] = 0
    /\ reader' = [reader EXCEPT ![k] = "closed"]
    /\ UNCHANGED << dashVars, fnVars, probeVars, formVars, child, pipes, stop, upload >>

PipeNext ==
    \/ \E k \in Kinds : Launch(k)
    \/ \E k \in Kinds, s \in Streams : ChildWrite(k, s)
    \/ \E k \in Kinds, s \in Streams : ReaderDrain(k, s)
    \/ \E k \in Kinds : ChildExit(k)
    \/ \E k \in Kinds : ReaderClose(k)

PipeSpec == PipeInit /\ [][PipeNext]_vars

(***************************************************************************)
(* ProcessManager.stop_process, called on either manager at any moment of  *)
(* its child's life.                                                       *)
(***************************************************************************)

\* check_if_running: self.process is set and self.process.poll() is None
check_if_running(c) == c = "running"

\* stop_process, given the state c of the held process: the calls, signals and log
\* lines after the call.
\*     if self.process and self.check_if_running():
\*         self.process.terminate()
\*         self.logger.info("Process terminated.")
stop_process_blind(c, s) ==
    [calls |-> s.calls + 1, signals |-> s.signals + 1, logged |-> s.logged + 1]
stop_process(c, s) ==
    IF c # "none" /\ check_if_running(c)
    THEN [calls |-> s.calls + 1, signals |-> s.signals + 1, logged |-> s.logged + 1]
    ELSE [s EXCEPT !.calls = @ + 1]

ManagerInit == DashInit /\ FnRest /\ ProbeRest /\ FormRest /\ PipeRest

\* a caller invokes stop_process() on manager k
StopCall(k) ==
    /\ stop[k].calls < MaxStops
    /\ stop' = [stop EXCEPT ![k] = stop_process(child[k], @)]
    /\ UNCHANGED << dashVars, fnVars, probeVars, formVars, child, pipes, reader, upload >>

\* the termination signal ends the child; the manager neither waits for it nor kills it
ChildTerminated(k) ==
    /\ child[k] = "running"
    /\ stop[k].signals > 0
    /\ child' = [child EXCEPT ![k] = "exited"]
    /\ UNCHANGED << dashVars, fnVars, probeVars, formVars, pipes, reader, stop, upload >>

\* the children write nothing here: what they write is PipeSpec's part
ManagerNext ==
    \/ \E k \in Kinds : Launch(k)
    \/ \E k \in Kinds : ChildExit(k)
    \/ \E k \in Kinds : ReaderClose(k)
    \/ \E k \in Kinds : StopCall(k)
    \/ \E k \in Kinds : ChildTerminated(k)

ManagerSpec == ManagerInit /\ [][ManagerNext]_vars

(***************************************************************************)
(* pages/2_Packet_Capture.py: an uploaded capture is saved, analysed by    *)
(* the child of LibTcpDumpManager, and its results are displayed.  The     *)
(* child writes <name>.csv itself; its stdout goes through the pipe and    *)
(* redirect_output_to_file into ./pcaps/result.processed.  An upload made  *)
(* while the analysis of an earlier one is still running is not explored.  *)
(***************************************************************************)

\* What pd.read_csv finds at ./pcaps/<name>.csv, given the state of the analysis
\* that writes it: not created yet or partly written while it runs.
CsvContents(c) == IF c = "exited" THEN {"complete"} ELSE {"missing", "partial"}

\* What get_output finds in ./pcaps/result.processed, given the state of the thread
\* in redirect_output_to_file: the file is opened with "w" when the thread starts and
\* holds all the output once the thread has left its "with" block.
ResultsContent(r) == IF r = "closed" THEN "complete" ELSE "partial"

CaptureInit == DashInit /\ FnRest /\ ProbeRest /\ FormRest /\ PipeRest

\* handle_file_upload up to process_file: libtcpdump_manager.start_process(file)
ProcessFile ==
    /\ upload.pc \in {"idle", "done", "raised"}
    /\ child["capture"] \in {"none", "exited"}
    /\ child' = [child EXCEPT !["capture"] = "running"]
    /\ pipes' = [pipes EXCEPT !["capture"] = [s \in Streams |-> 0]]
    /\ reader' = [reader EXCEPT !["capture"] = "reading"]
    /\ stop' = [stop EXCEPT !["capture"].signals = 0]
    /\ upload' = [pc |-> "sleep", csv |-> "none", out |-> "none"]
    /\ UNCHANGED << dashVars, fnVars, probeVars, formVars >>

\* process_file: time.sleep(15) returns, whatever the analysis is doing
SleepReturns ==
    /\ upload.pc = "sleep"
    /\ upload' = [upload EXCEPT !.pc = "csv"]
    /\ UNCHANGED << dashVars, fnVars, probeVars, formVars, child, pipes, reader, stop >>

\* display_analysis_and_charts: pd.read_csv raises FileNotFoundError for a missing
\* file, which ends the run
ReadCsv(c) ==
    /\ upload.pc = "csv"
    /\ upload' = [upload EXCEPT !.csv = c,
                                !.pc = IF c = "missing" THEN "raised" ELSE "output"]
    /\ UNCHANGED << dashVars, fnVars, probeVars, formVars, child, pipes, reader, stop >>

\* display_analysis: st.write(libtcpdump_manager.get_output())
GetOutput ==
    /\ upload.pc = "output"
    /\ upload' = [upload EXCEPT !.out = ResultsContent(reader["capture"]),
                                !.pc = "done"]
    /\ UNCHANGED << dashVars, fnVars, probeVars, formVars, child, pipes, reader, stop >>

CaptureNext ==
    \/ ProcessFile
    \/ SleepReturns
    \/ \E c \in CsvContents(child["capture"]) : ReadCsv(c)
    \/ GetOutput
    \/ \E s \in Streams : ChildWrite("capture", s)
    \/ \E s \in Streams : ReaderDrain("capture", s)
    \/ ChildExit("capture")
    \/ ReaderClose("capture")

CaptureSpec == CaptureInit /\ [][CaptureNext]_vars

(***************************************************************************)
(* Steps of the countdown, named for the properties below.                 *)
(***************************************************************************)

\* a tick of the countdown loop is taken (it ends the run when extraction raises)
TickStep ==
    /\ pc = "loop"
    /\ LoopCond(srt_timeout)
    /\ hist'.ticks = hist.ticks + 1 \/ pc' = "raised"

\* the countdown ends by natural expiry and its cleanup runs
ExpireStep == pc = "loop" /\ ~LoopCond(srt_timeout) /\ pc' = "idle"

\* the operator cancels the running countdown
TerminateStep == pc = "loop" /\ LoopCond(srt_timeout) /\ pc' = "idle"

(***************************************************************************)
(* Properties.                                                             *)
(***************************************************************************)

\* C1: after a start_process call, as long as the monitor started by that call has
\* not seen a non-empty statistics file (it is still polling),
\* get_connection_status() returns false.
C1_FalseUntilMonitorObserves ==
    (process # 0 /\ mon[process] = "poll") => ~get_connection_status

\* C2 (as stated): once get_connection_status() has returned true on the manager, every
\* later call of get_connection_status() returns true.
C2_NeverFalseAfterTrue ==
    [][(hist.everTrue /\ TickStep /\ ~srt_connected) => get_connection_status]_vars

\* C2 (amended): connection_established goes from true to false only by the cleanup
\* assignment after the countdown loop; the monitor and start_process never reset it.
C2_ResetOnlyByCleanup ==
    [][(connection_established /\ ~connection_established') => ExpireStep]_vars

\* C2 witness: the status has been returned as true and the cleanup has reset the flag.
C2_Witness == hist.everTrue /\ ~connection_established /\ pc = "idle"

\* C3: in a countdown whose receiver process has exited without having written
\* statistics, nothing has been rendered to the 'connected' sink.
C3_NoConnectedWithoutStats ==
    (pc = "loop" /\ proc[process] = "exited" /\ ~hist.wrote) => connectedSink = << >>

\* C4: in one countdown extract_connected_ip_port is called at most once and 'connected'
\* is rendered at most once, and the tick at which get_connection_status() returns true
\* renders 'connected' exactly once.
C4_RenderedOnceWhenTrue ==
    [][TickStep =>
         /\ hist'.extractCalls <= 1
         /\ Len(connectedSink') <= 1
         /\ (~srt_connected /\ get_connection_status) => Len(connectedSink') = 1]_vars

\* C5 (as stated): when the loop has ended, T ticks were performed and the values
\* rendered to 'counter' strictly decrease from T to 0.
C5_CounterFromTToZero ==
    (pc = "loop" /\ srt_timeout <= 0) =>
        /\ hist.ticks = session.T
        /\ Len(counterSink) >= 1
        /\ counterSink[1] = session.T
        /\ counterSink[Len(counterSink)] = 0
        /\ \A k \in 1..(Len(counterSink) - 1) : counterSink[k] > counterSink[k + 1]

\* C5 (amended): the k-th value rendered to 'counter' is T - k + 1, one value per tick,
\* never 0; a loop that has ended has performed exactly T ticks and rendered T down to 1.
C5_CounterFromTToOne ==
    pc = "loop" =>
        /\ Len(counterSink) = hist.ticks
        /\ hist.ticks <= session.T
        /\ srt_timeout = session.T - hist.ticks
        /\ \A k \in 1..Len(counterSink) : counterSink[k] = session.T - k + 1
        /\ \A k \in 1..Len(counterSink) : counterSink[k] >= 1
        /\ srt_timeout <= 0 =>
               (hist.ticks = session.T /\ counterSink[Len(counterSink)] = 1)

\* C5 witness: a countdown of the largest timeout has performed all its ticks.
C5_Witness ==
    /\ pc = "loop"
    /\ srt_timeout = 0
    /\ session.T = MaxTimeout
    /\ Len(counterSink) = MaxTimeout

\* C6: when a session with network emulation whose statistics stayed empty expires,
\* the flag is false and no delay rule is left on the session's interface.
C6_ClearedAfterExpiry ==
    [][(ExpireStep /\ session.netem /\ hist.windowEmpty) =>
         (~connection_established' /\ qdisc'[session.intf] = 0)]_vars

\* C7: cancelling the countdown performs the cleanup of natural expiry: the flag is
\* false and the session's delay rule is cleared when the script runs again.
C7_CancelCleansUp ==
    [][TerminateStep =>
         (~connection_established' /\ (session.netem => qdisc'[session.intf] = 0))]_vars

\* C8: at most one delay rule is active on every interface.
C8_AtMostOneRule == \A i \in Interfaces : qdisc[i] <= 1

\* C8 witness: a session start has cleared the rule an earlier session left on the
\* interface and has added its own.
C8_Witness ==
    /\ pc = "start"
    /\ session.netem
    /\ hist.staleRule
    /\ qdisc[session.intf] = 1

\* C9: no traffic-control invocation of a session start ends the run with an
\* exception; the start goes on towards start_process.
C9_TcFailureNeverRaises ==
    [][(pc = "clear" \/ pc = "add") => pc' # "raised"]_vars

\* C10: a monitor that polls while the process is alive and the statistics file is
\* missing goes on polling.
C10_MissingStatsKeepsPolling ==
    [][(\A m \in Sessions :
          (mon[m] = "poll" /\ PollIsNone(process) /\ stats = "missing")
              => mon'[m] = "poll")]_vars


\* C12: on an existing log, extract_connected_ip_port returns the sentinel when the
\* content holds no address:port token, the first such token when it holds one, and
\* the same result on every repeated call while the log is unchanged.
C12_FirstTokenOrSentinel ==
    logFile.exists =>
        \A k \in 1..Len(rets) :
            /\ (\A i \in 1..Len(logFile.tokens) : logFile.tokens[i] \notin AddrTokens)
                   => rets[k] = Sentinel
            /\ \A i \in 1..Len(logFile.tokens) :
                   (/\ logFile.tokens[i] \in AddrTokens
                    /\ \A j \in 1..(i - 1) : logFile.tokens[j] \notin AddrTokens)
                   => rets[k] = logFile.tokens[i]
            /\ rets[k] = rets[1]

\* C12 witness: two calls were made on a log that holds two different address:port
\* tokens after a token that is none.
C12_Witness ==
    /\ Len(rets) = MaxCalls
    /\ Len(logFile.tokens) = MaxLogLen
    /\ logFile.tokens[1] \notin AddrTokens
    /\ logFile.tokens[2] \in AddrTokens
    /\ logFile.tokens[3] \in AddrTokens
    /\ logFile.tokens[2] # logFile.tokens[3]

\* C13: when the log does not exist, extract_connected_ip_port returns the sentinel.
C13_MissingLogGivesSentinel ==
    ~logFile.exists => \A k \in 1..Len(rets) : rets[k] = Sentinel

\* the probe invocation itself succeeded: ffprobe ran, exited 0, and printed JSON
ProbeSucceeded(res) == res.runnable /\ res.exit = 0 /\ res.out.parses

\* C14: check_for_valid_mpeg_ts never raises and returns None when the probe invocation
\* fails (prober missing, non-zero exit, unparseable output), true when it succeeds and
\* reports format_name mpegts, false when it succeeds and reports anything else.
C14_CheckTrueFalseNone ==
    probe.fn = "check_for_valid_mpeg_ts" =>
        /\ probe.ret \in {"True", "False", "None"}
        /\ ~ProbeSucceeded(probe.fmt) => probe.ret = "None"
        /\ (ProbeSucceeded(probe.fmt) /\ probe.fmt.out.format = "mpegts")
               => probe.ret = "True"
        /\ (ProbeSucceeded(probe.fmt) /\ probe.fmt.out.format # "mpegts")
               => probe.ret = "False"

\* C15: show_mpeg_ts_programs never raises, returns the parsed output exactly when the
\* probe succeeds and the output has a "programs" entry, and None otherwise.
C15_ShowOutputOrNone ==
    probe.fn = "show_mpeg_ts_programs" =>
        /\ probe.ret \in {"output", "None"}
        /\ probe.ret = "output" <=>
               (ProbeSucceeded(probe.prg) /\ probe.prg.out.programs)

\* C16: the tab shows program data only for true, the error only for false, neither
\* for None, and it never indexes a None result of show_mpeg_ts_programs.
C16_DisplayThreeWays ==
    probe.fn = "_display_transport_stream_data" =>
        /\ probe.ret = "programs" => check_for_valid_mpeg_ts(probe.fmt) = "True"
        /\ probe.ret = "error" => check_for_valid_mpeg_ts(probe.fmt) = "False"
        /\ ~probe.indexedNone

\* C17: in caller mode with an empty or ill-formed address the run draws Submit
\* disabled and starts no session (no add_network_emulation, no start_process).
C17_NoLaunchUnvalidated ==
    (run.srt_mode = "Caller" /\ ~validate_ipv4_address(run.listener_ip)) =>
        /\ run.pc \in {"handle", "session", "idle"} => run.submit_disabled
        /\ run.pc # "session"

\* a start_process call is made
StartStep == pc = "start" /\ pc' = "loop"

\* C18 (as stated): start_process is invoked at most once on a manager.
C18_StartedAtMostOnce == process <= 1

\* C18 (amended): every submitted session calls start_process on the one cached
\* manager; each call launches a new receiver behind a new handle and starts one new
\* monitor thread, and leaves the receivers and monitors of earlier calls as they are.
C18_EveryCallLaunchesAnew ==
    [][StartStep =>
         /\ process' = process + 1
         /\ proc[process'] = "none" /\ proc'[process'] = "spawned"
         /\ mon[process'] = "none" /\ mon'[process'] = "poll"
         /\ \A m \in 1..process : proc'[m] = proc[m] /\ mon'[m] = mon[m]]_vars

\* C18 witness: the second call was made while the receiver and the monitor of the
\* first call were still running.
C18_Witness ==
    /\ process = 2
    /\ pc = "loop"
    /\ PollIsNone(1)
    /\ mon[1] = "poll"

\* monitor thread m ends its loop at this step
MonEndStep(m) == mon[m] = "poll" /\ mon'[m] = "ended"

\* C19 (as stated): connection_established is written by the monitor of the current
\* session only.
C19_SingleWriter ==
    [][connection_established' # connection_established
          => (process # 0 /\ MonEndStep(process))]_vars

\* C19 (amended): connection_established is set to true by monitor threads only, by
\* any thread still polling, at a poll that finds the held process alive and the
\* statistics non-empty; it is set to false by the foreground cleanup only.
C19_WrittenByMonitorsAndCleanup ==
    [][connection_established' # connection_established =>
         \/ /\ connection_established'
            /\ \E m \in Sessions : MonEndStep(m)
            /\ proc[process] \in {"spawned", "running"}
            /\ stats = "nonempty"
         \/ /\ ~connection_established'
            /\ ExpireStep]_vars

\* C19 witness: the flag is true, set by the monitor of the first call, while the
\* monitor of the current call is still polling.
C19_Witness ==
    /\ process = 2
    /\ pc = "loop"
    /\ connection_established
    /\ mon[1] = "ended"
    /\ mon[2] = "poll"

\* C11: once the receiver process of a start_process call has exited, the monitor
\* thread started by that call terminates; a monitor that ends without having seen
\* non-empty statistics leaves connection_established unchanged.
C11_MonitorTerminates ==
    /\ \A m \in Sessions : (proc[m] = "exited") ~> (mon[m] = "ended")
    /\ [][\A m \in Sessions :
             (MonEndStep(m) /\ stats # "nonempty")
                 => connection_established' = connection_established]_vars

\* C11 witness: the receiver has exited with the statistics still empty, its monitor
\* has terminated and the flag is false.
C11_Witness ==
    /\ process = 1
    /\ proc[1] = "exited"
    /\ mon[1] = "ended"
    /\ stats = "empty"
    /\ hist.windowEmpty
    /\ ~connection_established

\* C20: every stream of a launched child that ends in a pipe is drained by a reader
\* started with it, so the child is never blocked on a full pipe that nobody reads.
C20_EveryPipeDrained ==
    \A k \in Kinds :
        child[k] = "running" =>
            \A s \in PipedStreams(k) :
                pipes[k][s] = PipeCap => (reader[k] = "reading" /\ s \in DrainedStreams(k))

\* a stop_process call is made on manager k
StopStep(k) == stop'[k].calls = stop[k].calls + 1

\* C21: a stop_process call sends one termination signal and logs one line when the
\* manager holds a process that is still alive; with no process or an exited process
\* it sends nothing and logs nothing; in both cases it leaves the process, its pipes
\* and its reader as they are.
C21_StopOnlyWhenAlive ==
    [][\A k \in Kinds :
         StopStep(k) =>
             /\ child' = child /\ pipes' = pipes /\ reader' = reader
             /\ IF child[k] = "running"
                THEN /\ stop'[k].signals = stop[k].signals + 1
                     /\ stop'[k].logged = stop[k].logged + 1
                ELSE /\ stop'[k].signals = stop[k].signals
                     /\ stop'[k].logged = stop[k].logged]_vars

\* C21 witness: stop_process was called on a live process and called again after the
\* process had exited: one signal, one log line.
C21_Witness ==
    \E k \in Kinds :
        /\ child[k] = "exited"
        /\ stop[k] = [calls |-> 2, signals |-> 1, logged |-> 1]

\* C22: no exception leaves the countdown loop, whatever the receiver and its
\* artifacts do: a run that is in the loop does not end by an exception.
C22_NoExceptionLeavesLoop ==
    [][pc = "loop" => pc' # "raised"]_vars

\* C23: a receiver that could not be spawned (its process ends without ever having
\* started) has no monitor thread and no countdown: start_process has raised instead.
C23_SpawnFailureSurfaced ==
    [][\A p \in Sessions :
         (proc[p] = "spawned" /\ proc'[p] = "exited")
             => (mon[p] = "none" /\ ~(pc = "loop" /\ process = p))]_vars

\* C24: connection_established becomes true only at a poll of a monitor thread, never
\* in the step that starts the thread, at which the process held by the manager is
\* alive and the statistics are non-empty, and that poll is the thread's last; a
\* thread that has ended polls no more; a thread that ends because it finds the
\* process exited leaves the flag as it is.
C24_SetOnlyAtLivePoll ==
    [][/\ (~connection_established /\ connection_established') =>
              /\ ~StartStep
              /\ \E m \in Sessions : MonEndStep(m)
              /\ proc[process] \in {"spawned", "running"}
              /\ stats = "nonempty"
       /\ \A m \in Sessions :
              /\ mon[m] = "ended" => mon'[m] = "ended"
              /\ (MonEndStep(m) /\ proc[process] = "exited")
                     => connection_established' = connection_established]_vars

\* C24 witness: the monitor of the first call has set the flag at a poll that found
\* its process running and the statistics non-empty, and has ended; the countdown has
\* not looked at the flag yet.
C24_Witness ==
    /\ process = 1
    /\ pc = "loop"
    /\ proc[1] = "running"
    /\ stats = "nonempty"
    /\ mon[1] = "ended"
    /\ connection_established
    /\ ~srt_connected

\* C25: a tick that begins with the flag true and nothing rendered to 'connected' yet
\* ends with 'connected' rendered, the final tick included.
C25_RenderedByNextTick ==
    [][(TickStep /\ get_connection_status /\ connectedSink = << >>)
           => connectedSink' # << >>]_vars

\* C26: the script moves through a session start in one order only: the clear, then
\* the add exactly when emulation is enabled, then start_process, then the countdown;
\* a receiver is spawned by the start_process step only, for a session with emulation
\* after its delay rule was requested, and a tick is taken only after start_process
\* has launched the receiver and its monitor.
C26_StartOrder ==
    [][/\ pc' # pc =>
              \/ (pc \in {"idle", "raised"} /\ pc' = "clear")
              \/ (pc = "clear" /\ pc' \in {"add", "start", "raised"})
              \/ (pc = "add" /\ pc' \in {"start", "raised"})
              \/ (pc = "start" /\ pc' \in {"loop", "raised"})
              \/ (pc = "loop" /\ pc' \in {"idle", "raised"})
       /\ (pc = "clear" /\ pc' = "add") => session.netem
       /\ (pc = "clear" /\ pc' = "start") => ~session.netem
       /\ (\E p \in Sessions : proc[p] = "none" /\ proc'[p] # "none") => StartStep
       /\ (StartStep /\ session.netem) => qdisc[session.intf] >= 1
       /\ TickStep => (process >= 1 /\ proc[process] # "none" /\ mon[process] # "none")]_vars

\* C26 witness: a session with emulation has requested its rule, launched its receiver
\* and taken a tick of its countdown.
C26_Witness ==
    /\ pc = "loop"
    /\ session.netem
    /\ qdisc[session.intf] = 1
    /\ proc[process] # "none"
    /\ hist.ticks >= 1

\* C27: the monitor thread started by call m follows the process launched by call m:
\* at the poll at which it sets the flag, that process is alive.
C27_MonitorFollowsOwnProcess ==
    [][\A m \in Sessions :
         (MonEndStep(m) /\ ~connection_established /\ connection_established')
             => proc[m] \in {"spawned", "running"}]_vars

\* C28: when start_process is called, no receiver launched by an earlier call is
\* alive and no monitor thread of an earlier call is still polling.
C28_SessionsNeverOverlap ==
    [][StartStep =>
         \A m \in Sessions :
             /\ proc[m] \notin {"spawned", "running"}
             /\ mon[m] # "poll"]_vars

\* C29: from the cleanup after the countdown loop until the next start_process call,
\* connection_established is false.
C29_FalseAfterCleanup == hist.cleaned => ~connection_established

\* C30: what the display has read of an uploaded capture's results, the CSV and the
\* redirected output, is the complete result of a finished analysis.
C30_ReadsOnlyFinishedResults ==
    /\ upload.csv \in {"none", "complete"}
    /\ upload.out \in {"none", "complete"}

====
